---- MODULE Spec2Model ----
\* Model of scripts/install-pre-commit.ts: one invocation of the script, from
\* the raw process arguments and environment to the last line written.
\*
\* The script hands Deno.args to the yargs argument parser, which resolves the
\* four declared boolean options, dispatches to the default command ($0) and
\* routes failures to onFail.  The handler and onFail are async functions; the
\* model takes one step per write they perform, since a write is where the
\* runtime can raise.
EXTENDS Integers, Sequences, FiniteSets, TLC

VARIABLES
    argv,           \* Deno.args: the raw argument list
    env,            \* the process environment (option-named variables)
    noColor,        \* Deno.noColor
    pc,             \* position of the run
    args,           \* the parsed Global Options handed to the handler
    verboseEnabled, \* the process-wide verbosity flag (line 30)
    out,            \* what has been written to standard output, in order
    faults,         \* writes that raised so far
    failMsg,        \* onFail's msg argument
    failErr,        \* onFail's error argument
    failCalls,      \* number of times onFail has been invoked
    handlerErr,     \* the error the command handler rejected with, if any
    exitCode,       \* -1 while running
    explicitExit,   \* Deno.exit was called
    flagEvents,     \* history of accesses to verboseEnabled: "write" / "read"
    raisedBy,       \* the function the last error propagated out of
    prev            \* the previous invocation's inputs and result, if any

vars == <<argv, env, noColor, pc, args, verboseEnabled, out, faults, failMsg,
          failErr, failCalls, handlerErr, exitCode, explicitExit, flagEvents,
          raisedBy, prev>>

-----------------------------------------------------------------------------
\* Bounds of the model.

MaxArgs == 2
MaxRerunArgs == 1
MaxFaults == 2

-----------------------------------------------------------------------------
\* Option schema and program constants.

OptionKeys == {"verbose", "help", "version", "completionScript"}

\* CLI_OPTIONS: name, alias, default of each declared flag.
CLI_OPTIONS ==
    { [name |-> "verbose",           alias |-> "v", default |-> FALSE],
      [name |-> "help",              alias |-> "h", default |-> FALSE],
      [name |-> "version",           alias |-> "",  default |-> FALSE],
      [name |-> "completion-script", alias |-> "",  default |-> FALSE] }

SCRIPT_NAME == "install-pre-commit"
SCRIPT_VERSION == "v0.1.0"
SCRIPT_COPYRIGHT == "Copyright (c) 2026 G'lek Tarssza, all rights reserved"
ENABLE_CLI_ENV == TRUE
STRICT_CLI_COMMANDS == TRUE
BooleanNegation == TRUE
CamelCaseExpansion == TRUE

DemandMinMsg == "A command is required!"
DemandMaxMsg == "At most one command can be used!"
DemandMin == 1
DemandMax == 1

-----------------------------------------------------------------------------
\* Raw arguments.  A token is an argument already split into its dashes, its
\* negation prefix ("no-") and its name.

Long(n) == [kind |-> "long", negated |-> FALSE, name |-> n]
NoLong(n) == [kind |-> "long", negated |-> TRUE, name |-> n]
Short(n) == [kind |-> "short", negated |-> FALSE, name |-> n]
Positional(n) == [kind |-> "positional", negated |-> FALSE, name |-> n]

Tokens ==
    { Long("verbose"), Short("v"), NoLong("verbose"),
      Long("help"), Short("h"), NoLong("help"),
      Long("version"), Long("completion-script"),
      Long("frobnicate"), Positional("foo") }

ArgLists(n) == UNION { [1..k -> Tokens] : k \in 0..n }

EnvNames == {"VERBOSE", "HELP", "VERSION", "COMPLETION_SCRIPT"}
EnvValues == {"unset", "true"}
Envs == [EnvNames -> EnvValues]

-----------------------------------------------------------------------------
\* Option resolution (yargs-parser under YARGS_PARSER_OPTIONS and CLI_OPTIONS).

\* 'strip-aliased' / alias: a short or long alias names its option.
ResolveAlias(n) ==
    IF \E o \in CLI_OPTIONS : o.alias = n /\ n # ""
    THEN (CHOOSE o \in CLI_OPTIONS : o.alias = n).name
    ELSE n

\* 'camel-case-expansion': a dashed name also sets its camel-cased key.
CamelCase(n) ==
    IF CamelCaseExpansion /\ n = "completion-script" THEN "completionScript" ELSE n

\* env(true): every environment variable names the option of its camel-cased name.
EnvKey(v) ==
    CASE v = "VERBOSE" -> "verbose"
      [] v = "HELP" -> "help"
      [] v = "VERSION" -> "version"
      [] v = "COMPLETION_SCRIPT" -> "completionScript"

Unparsed == [k \in OptionKeys |-> "unset"]

\* One argument: a declared flag sets its key (a later occurrence overwrites an
\* earlier one); 'boolean-negation' makes the no- form set it to false; unknown
\* options and positionals leave the declared keys alone.
SetArg(p, tok) ==
    LET key == CamelCase(ResolveAlias(tok.name)) IN
    IF tok.kind = "positional" \/ key \notin OptionKeys THEN p
    ELSE IF tok.negated
         THEN IF BooleanNegation THEN [p EXCEPT ![key] = "false"] ELSE p
         ELSE [p EXCEPT ![key] = "true"]

RECURSIVE ParseArgv(_, _)
ParseArgv(p, a) ==
    IF a = <<>> THEN p ELSE ParseArgv(SetArg(p, Head(a)), Tail(a))

\* Environment variables applied over the command line instead of under it.
ApplyEnvVarsOverriding(p, e) ==
    [k \in OptionKeys |->
        LET v == CHOOSE n \in EnvNames : EnvKey(n) = k IN
        IF e[v] # "unset" /\ ENABLE_CLI_ENV THEN e[v] ELSE p[k]]

\* An environment variable supplies a key the command line left unset.
ApplyEnvVars(p, e) ==
    [k \in OptionKeys |->
        IF p[k] = "unset" /\ ENABLE_CLI_ENV
        THEN LET v == CHOOSE n \in EnvNames : EnvKey(n) = k IN e[v]
        ELSE p[k]]

OptionDefault(k) ==
    (CHOOSE o \in CLI_OPTIONS : CamelCase(o.name) = k).default

\* The default fills what neither source set; the result is the typed record.
ApplyDefaults(p) ==
    [k \in OptionKeys |-> IF p[k] = "unset" THEN OptionDefault(k) ELSE p[k] = "true"]

Parse(a, e) == ApplyDefaults(ApplyEnvVars(ParseArgv(Unparsed, a), e))

IsPositional(tok) == tok.kind = "positional"
Positionals(a) == SelectSeq(a, IsPositional)

-----------------------------------------------------------------------------
\* Command dispatch.

NoFailure == ""

\* COMMAND_MODULE.command is '$0': the default command.
HasDefaultCommand == TRUE

\* Dispatch that applies the demanded command count to the default command too.
DispatchFailureDemanding(pos) ==
    IF Len(pos) < DemandMin THEN DemandMinMsg
    ELSE IF Len(pos) > DemandMax THEN DemandMaxMsg
    ELSE NoFailure

\* What the validation of the command count reports.  With a default command
\* registered, yargs runs it whenever the positionals name no other command;
\* demandCommand's requirement belongs to the top-level context only and the
\* default command's own context has no commands to be strict about, so the
\* positionals reach the handler as they are.  Without one, the demanded count
\* and strictCommands are enforced.
DispatchFailure(pos) ==
    IF HasDefaultCommand THEN NoFailure
    ELSE IF Len(pos) < DemandMin THEN DemandMinMsg
    ELSE IF Len(pos) > DemandMax THEN DemandMaxMsg
    ELSE IF STRICT_CLI_COMMANDS THEN "Unknown command: " \o pos[1].name
    ELSE NoFailure

-----------------------------------------------------------------------------
\* Output sink and leveled logger.

\* Stands for the escape character \x1B of the colour sequences.
Esc == "\\x1B"

RECURSIVE Join(_)
\* data.join(' ')
Join(data) ==
    IF data = <<>> THEN ""
    ELSE IF Len(data) = 1 THEN Head(data)
    ELSE Head(data) \o " " \o Join(Tail(data))

\* writeLineStdoutSync / writeLineStdout: the text handed to the stream.
Line(msg) == msg \o "\n"

Colored(code, label, msg) ==
    Esc \o "[38:5:" \o code \o "m[" \o label \o "]" \o Esc \o "[0m " \o msg

\* Each logger yields the lines it hands to the output sink.
LogError(data) ==
    IF noColor THEN << Line("[ERROR] " \o Join(data)) >>
    ELSE << Line(Colored("196", "ERROR", Join(data))) >>

LogWarning(data) ==
    IF noColor THEN << Line("[WARN] " \o Join(data)) >>
    ELSE << Line(Colored("208", "WARN", Join(data))) >>

\* logInfo writing under logWarning's label and colour.
LogInfoAsWarning(data) ==
    IF noColor THEN << Line("[WARN] " \o Join(data)) >>
    ELSE << Line(Colored("208", "WARN", Join(data))) >>

LogInfo(data) ==
    IF noColor THEN << Line("[INFO] " \o Join(data)) >>
    ELSE << Line(Colored("111", "INFO", Join(data))) >>

\* logVerbose without its early return.
LogVerboseUngated(data) ==
    IF noColor THEN << Line("[VERBOSE] " \o Join(data)) >>
    ELSE << Line(Colored("141", "VERBOSE", Join(data))) >>

LogVerbose(data) ==
    IF ~verboseEnabled THEN << >>
    ELSE IF noColor THEN << Line("[VERBOSE] " \o Join(data)) >>
    ELSE << Line(Colored("141", "VERBOSE", Join(data))) >>

\* What the runtime can raise from a write: the code reads only the stack of
\* what it catches, which a thrown value may or may not carry.
ThrownErrors ==
    { [thrown |-> TRUE, stack |-> "BrokenPipe: Broken pipe (os error 32)\n    at write"],
      [thrown |-> TRUE, stack |-> ""] }
NoError == [thrown |-> FALSE, stack |-> ""]

MsgNull == [isNull |-> TRUE, text |-> ""]
Msg(t) == [isNull |-> FALSE, text |-> t]
\* `${msg}`
Stringify(m) == IF m.isNull THEN "null" ELSE m.text

\* Deno.stdout.write / writeSync of the given lines succeeds ...
Wrote(lines) == out' = out \o lines /\ faults' = faults
\* ... or raises, and nothing is written.
WriteRaises == faults < MaxFaults /\ faults' = faults + 1 /\ out' = out

-----------------------------------------------------------------------------
\* Text produced by the handler's branches.

HelpText == "Usage: install-pre-commit [options]\n\n" \o SCRIPT_COPYRIGHT
CompletionScript == "###-begin-install-pre-commit-completions-###"
VersionLine == SCRIPT_NAME \o " " \o SCRIPT_VERSION
InfoGreeting == <<"Hello, world!">>
VerboseGreeting == <<"Hello, world, verbosely!">>

\* The handler with its first two if statements in the other order.
HandlerBranchVersionFirst(a) ==
    IF a.version THEN "version"
    ELSE IF a.help THEN "help"
    ELSE IF a.completionScript THEN "completion"
    ELSE "greetInfo"

\* The branch the handler takes: the first of its if statements whose flag is set.
HandlerBranch(a) ==
    IF a.help THEN "help"
    ELSE IF a.version THEN "version"
    ELSE IF a.completionScript THEN "completion"
    ELSE "greetInfo"

\* A handler that never enables verbosity.
HandlerVerboseStale(a) == FALSE

\* The flag value the handler stores: args.verbose ?? false.
HandlerVerbose(a) == a.verbose

\* The diagnostic lines of onFail.
FailHeaderData == <<"Fatal error while running script!">>
FailMessageData(m) == << "Error message: \"" \o Stringify(m) \o "\"" >>
FailStackLabelData == <<"Stack trace:">>
FailNoStackData == <<"No stack trace available!">>
\* error?.stack
HasStack(e) == e.thrown /\ e.stack # ""

-----------------------------------------------------------------------------
\* The run.

Inputs == <<argv, env, noColor, prev>>

NoPrev ==
    [ran |-> FALSE, argv |-> << >>, env |-> [n \in EnvNames |-> "unset"],
     args |-> ApplyDefaults(Unparsed)]

\* The state of a process that has just loaded the module (line 30 and the
\* constants): nothing parsed, nothing written, the verbosity flag false.
ProcessStart(p, a, v, o, f, fm, fe, fc, he, x, ee, ev, rb) ==
    /\ p = "start"
    /\ a = ApplyDefaults(Unparsed)
    /\ v = FALSE
    /\ o = << >>
    /\ f = 0
    /\ fm = MsgNull
    /\ fe = NoError
    /\ fc = 0
    /\ he = NoError
    /\ x = -1
    /\ ee = FALSE
    /\ ev = << >>
    /\ rb = ""

Init ==
    /\ argv \in ArgLists(MaxArgs)
    /\ env \in Envs
    /\ noColor \in BOOLEAN
    /\ prev = NoPrev
    /\ ProcessStart(pc, args, verboseEnabled, out, faults, failMsg, failErr, failCalls,
                    handlerErr, exitCode, explicitExit, flagEvents, raisedBy)

\* parser.command(COMMAND_MODULE).demandCommand(...).parse(): resolve the options,
\* then either run the command handler or report the validation failure to onFail.
ParseAndDispatch ==
    /\ pc = "start"
    /\ args' = Parse(argv, env)
    /\ LET f == DispatchFailure(Positionals(argv)) IN
         IF f = NoFailure
         THEN /\ pc' = "handler"
              /\ UNCHANGED <<failMsg, failErr, failCalls>>
         ELSE /\ pc' = "onFail"
              /\ failMsg' = Msg(f)
              /\ failErr' = NoError
              /\ failCalls' = failCalls + 1
    /\ UNCHANGED <<Inputs, verboseEnabled, out, faults, handlerErr, exitCode,
                   explicitExit, flagEvents, raisedBy>>

\* handler, line 156: the flag is stored before any branch is looked at.
HandlerEntry ==
    /\ pc = "handler"
    /\ verboseEnabled' = HandlerVerbose(args)
    /\ flagEvents' = Append(flagEvents, "write")
    /\ pc' = HandlerBranch(args)
    /\ UNCHANGED <<Inputs, args, out, faults, failMsg, failErr, failCalls, handlerErr,
                   exitCode, explicitExit, raisedBy>>

\* Deno.exit(0)
Exit0 ==
    /\ pc' = "exited"
    /\ exitCode' = 0
    /\ explicitExit' = TRUE
    /\ UNCHANGED <<handlerErr, raisedBy, failMsg, failErr, failCalls>>

\* A handler whose body is wrapped in a try/catch that drops the error.
HandlerSwallows == TRUE

\* The handler has no try/catch.
HandlerCatches == FALSE

\* An error raised inside the handler rejects the promise the handler returned;
\* yargs passes the rejection to the registered fail callback as (null, error).
HandlerThrows(by) ==
    \E e \in ThrownErrors :
        /\ handlerErr' = e
        /\ raisedBy' = by
        /\ IF HandlerCatches
           THEN /\ pc' = "done"
                /\ exitCode' = 0
                /\ UNCHANGED <<failMsg, failErr, failCalls>>
           ELSE /\ pc' = "onFail"
                /\ failMsg' = MsgNull
                /\ failErr' = e
                /\ failCalls' = failCalls + 1
                /\ UNCHANGED exitCode
        /\ UNCHANGED explicitExit

HelpBranch ==
    /\ pc = "help"
    /\ \/ Wrote(<< Line(HelpText) >>) /\ Exit0
       \/ WriteRaises /\ HandlerThrows("writeLineStdout")
    /\ UNCHANGED <<Inputs, args, verboseEnabled, flagEvents>>

VersionName ==
    /\ pc = "version"
    /\ \/ /\ Wrote(<< Line(VersionLine) >>)
          /\ pc' = "versionCopyright"
          /\ UNCHANGED <<handlerErr, raisedBy, failMsg, failErr, failCalls, exitCode,
                         explicitExit>>
       \/ WriteRaises /\ HandlerThrows("writeLineStdout")
    /\ UNCHANGED <<Inputs, args, verboseEnabled, flagEvents>>

VersionCopyright ==
    /\ pc = "versionCopyright"
    /\ \/ Wrote(<< Line(SCRIPT_COPYRIGHT) >>) /\ Exit0
       \/ WriteRaises /\ HandlerThrows("writeLineStdout")
    /\ UNCHANGED <<Inputs, args, verboseEnabled, flagEvents>>

CompletionBranch ==
    /\ pc = "completion"
    /\ \/ Wrote(<< Line(CompletionScript) >>) /\ Exit0
       \/ WriteRaises /\ HandlerThrows("showCompletionScript")
    /\ UNCHANGED <<Inputs, args, verboseEnabled, flagEvents>>

GreetInfo ==
    /\ pc = "greetInfo"
    /\ \/ /\ Wrote(LogInfo(InfoGreeting))
          /\ pc' = "greetVerbose"
          /\ UNCHANGED <<handlerErr, raisedBy, failMsg, failErr, failCalls, exitCode,
                         explicitExit>>
       \/ WriteRaises /\ HandlerThrows("logInfo")
    /\ UNCHANGED <<Inputs, args, verboseEnabled, flagEvents>>

\* logVerbose reads the flag; with the flag false it returns at once.  The
\* handler returns after it and the run ends with status 0.
GreetVerbose ==
    /\ pc = "greetVerbose"
    /\ flagEvents' = Append(flagEvents, "read")
    /\ LET lines == LogVerbose(VerboseGreeting) IN
         \/ /\ Wrote(lines)
            /\ pc' = "done"
            /\ exitCode' = 0
            /\ UNCHANGED <<handlerErr, raisedBy, failMsg, failErr, failCalls,
                           explicitExit>>
         \/ lines # << >> /\ WriteRaises /\ HandlerThrows("logVerbose")
    /\ UNCHANGED <<Inputs, args, verboseEnabled>>

-----------------------------------------------------------------------------
\* onFail.

\* An error raised inside onFail rejects the promise it returned, which nothing
\* awaits: the runtime ends the process on the unhandled rejection.
OnFailRejects(by) ==
    /\ raisedBy' = by
    /\ pc' = "crashed"
    /\ exitCode' = 1

\* onFail has returned.  exitProcess(false): yargs does not exit.  The promise
\* parse() returned is discarded (line 208); after a handler rejection the
\* status the run ends with depends on whether that promise rejects unhandled.
OnFailReturns ==
    /\ pc' = "done"
    /\ exitCode' \in (IF handlerErr.thrown THEN {0, 1} ELSE {0})
    /\ UNCHANGED raisedBy

OnFailFrame ==
    UNCHANGED <<Inputs, args, verboseEnabled, flagEvents, failMsg, failErr, failCalls,
                handlerErr, explicitExit>>

FailHeader ==
    /\ pc = "onFail"
    /\ \/ /\ Wrote(LogError(FailHeaderData))
          /\ pc' = "failMessage"
          /\ UNCHANGED <<raisedBy, exitCode>>
       \/ WriteRaises /\ OnFailRejects("logError")
    /\ OnFailFrame

FailMessage ==
    /\ pc = "failMessage"
    /\ \/ /\ Wrote(LogError(FailMessageData(failMsg)))
          /\ pc' = (IF HasStack(failErr) THEN "failStackLabel" ELSE "failNoStack")
          /\ UNCHANGED <<raisedBy, exitCode>>
       \/ WriteRaises /\ OnFailRejects("logError")
    /\ OnFailFrame

FailStackLabel ==
    /\ pc = "failStackLabel"
    /\ \/ /\ Wrote(LogError(FailStackLabelData))
          /\ pc' = "failStack"
          /\ UNCHANGED <<raisedBy, exitCode>>
       \/ WriteRaises /\ OnFailRejects("logError")
    /\ OnFailFrame

FailStack ==
    /\ pc = "failStack"
    /\ \/ Wrote(<< Line(failErr.stack) >>) /\ OnFailReturns
       \/ WriteRaises /\ OnFailRejects("writeLineStdout")
    /\ OnFailFrame

FailNoStack ==
    /\ pc = "failNoStack"
    /\ \/ Wrote(LogError(FailNoStackData)) /\ OnFailReturns
       \/ WriteRaises /\ OnFailRejects("logError")
    /\ OnFailFrame

Terminal == pc \in {"done", "exited", "crashed"}

Next ==
    \/ ParseAndDispatch
    \/ HandlerEntry
    \/ HelpBranch
    \/ VersionName
    \/ VersionCopyright
    \/ CompletionBranch
    \/ GreetInfo
    \/ GreetVerbose
    \/ FailHeader
    \/ FailMessage
    \/ FailStackLabel
    \/ FailStack
    \/ FailNoStack

Spec == Init /\ [][Next]_vars

-----------------------------------------------------------------------------
\* A second invocation of the script with the same command line: a new process,
\* whose module state is initialised afresh, in an environment of its own.

Reinvoke ==
    /\ Terminal
    /\ ~prev.ran
    /\ prev' = [ran |-> TRUE, argv |-> argv, env |-> env, args |-> args]
    /\ argv' = argv
    /\ noColor' = noColor
    /\ env' \in Envs
    /\ ProcessStart(pc', args', verboseEnabled', out', faults', failMsg', failErr',
                    failCalls', handlerErr', exitCode', explicitExit', flagEvents',
                    raisedBy')

InitRerun ==
    /\ argv \in ArgLists(MaxRerunArgs)
    /\ env \in Envs
    /\ noColor \in BOOLEAN
    /\ prev = NoPrev
    /\ ProcessStart(pc, args, verboseEnabled, out, faults, failMsg, failErr, failCalls,
                    handlerErr, exitCode, explicitExit, flagEvents, raisedBy)

NextRerun ==
    \/ Next
    \/ Reinvoke

SpecRerun == InitRerun /\ [][NextRerun]_vars

-----------------------------------------------------------------------------
\* Properties.

\* The lines the greeting branch is expected to write, spelled out.
ExpectInfo ==
    IF noColor THEN "[INFO] Hello, world!\n"
    ELSE "\\x1B[38:5:111m[INFO]\\x1B[0m Hello, world!\n"
ExpectVerbose ==
    IF noColor THEN "[VERBOSE] Hello, world, verbosely!\n"
    ELSE "\\x1B[38:5:141m[VERBOSE]\\x1B[0m Hello, world, verbosely!\n"
ExpectError(text) ==
    IF noColor THEN "[ERROR] " \o text \o "\n"
    ELSE "\\x1B[38:5:196m[ERROR]\\x1B[0m " \o text \o "\n"

NoBranchFlag == ~args.help /\ ~args.version /\ ~args.completionScript
HandlerRan == flagEvents # << >>
Suffix(q, n) == SubSeq(q, Len(q) - n + 1, Len(q))

\* C1: the handler serves the flags in the order help > version >
\* completionScript > greeting.  A run that exits explicitly has status 0 and
\* has written exactly the output of the highest-priority flag set; a run in
\* which the handler raised nothing ends without an explicit exit only when
\* none of the three flags is set, and then it has logged the greeting; no
\* line of a lower-priority branch is ever written when a higher-priority
\* flag is set.
C1_HandlerPriority ==
    /\ pc = "exited" =>
         /\ exitCode = 0
         /\ explicitExit
         /\ \/ args.help /\ out = << Line(HelpText) >>
            \/ /\ ~args.help /\ args.version
               /\ out = << Line(VersionLine), Line(SCRIPT_COPYRIGHT) >>
            \/ /\ ~args.help /\ ~args.version /\ args.completionScript
               /\ out = << Line(CompletionScript) >>
    /\ (pc = "done" /\ ~handlerErr.thrown) =>
         /\ NoBranchFlag
         /\ ~explicitExit
         /\ out # << >> /\ out[1] = ExpectInfo
    /\ (Terminal /\ ~handlerErr.thrown /\ ~NoBranchFlag) => pc = "exited"
    /\ \A i \in 1..Len(out) :
         /\ out[i] \in {Line(VersionLine), Line(SCRIPT_COPYRIGHT)} => ~args.help
         /\ out[i] = Line(CompletionScript) => ~args.help /\ ~args.version
         /\ out[i] \in {ExpectInfo, ExpectVerbose} => NoBranchFlag

\* All three flags set: only the help text was written, and the run exited.
C1_Witness ==
    /\ pc = "exited"
    /\ args.help /\ args.version /\ args.completionScript
    /\ out = << Line(HelpText) >>

\* C2 as stated: every argument list without a positional argument makes the
\* invocation fail, the failure handler receiving "A command is required!".
C2_ZeroCommandsFail ==
    (pc # "start" /\ Positionals(argv) = << >>) =>
        failCalls > 0 /\ failMsg = Msg(DemandMinMsg)

\* C2, amended: an argument list without a positional argument dispatches to
\* the default command: the handler is invoked, the failure handler never
\* receives "A command is required!", and it is invoked only for an error the
\* handler raised.
C2_ZeroCommandsRunDefault ==
    (pc # "start" /\ Positionals(argv) = << >>) =>
        /\ failMsg # Msg(DemandMinMsg)
        /\ failCalls > 0 => handlerErr.thrown
        /\ pc = "handler" \/ HandlerRan

\* The script run with no arguments at all has greeted and ended.
C2_Witness ==
    /\ argv = << >>
    /\ pc = "done"
    /\ failCalls = 0
    /\ out = << ExpectInfo >>

\* C3: when a run in which nothing was raised ends with none of help, version
\* and completionScript set, its whole output is the info greeting line,
\* followed by the verbose greeting line exactly when verbose is set.
C3_GreetingOutput ==
    (Terminal /\ ~handlerErr.thrown /\ NoBranchFlag) =>
        /\ pc = "done"
        /\ out = (IF args.verbose THEN << ExpectInfo, ExpectVerbose >>
                  ELSE << ExpectInfo >>)

\* A verbose run has written both greeting lines, in that order.
C3_Witness ==
    /\ pc = "done"
    /\ args.verbose
    /\ out = << ExpectInfo, ExpectVerbose >>

\* C4 as stated: every argument list with two or more positional arguments
\* makes the invocation fail with "At most one command can be used!", a
\* message other than the zero-command one.
C4_TooManyCommandsFail ==
    /\ DemandMaxMsg # DemandMinMsg
    /\ (pc # "start" /\ Len(Positionals(argv)) >= 2) =>
           failCalls > 0 /\ failMsg = Msg(DemandMaxMsg)

\* The diagnostic block expected for a failure with message text m and error e.
ExpectBlock(m, e) ==
    << ExpectError("Fatal error while running script!"),
       ExpectError("Error message: \"" \o m \o "\"") >>
    \o (IF e.thrown /\ e.stack # ""
        THEN << ExpectError("Stack trace:"), e.stack \o "\n" >>
        ELSE << ExpectError("No stack trace available!") >>)
EndsWith(q, b) == Len(q) >= Len(b) /\ Suffix(q, Len(b)) = b
InOnFail == pc \in {"onFail", "failMessage", "failStackLabel", "failStack", "failNoStack"}

\* C5 as stated: once the failure handler has been invoked it never raises and
\* never ends the process, so every such run ends with control returned; and
\* what it has then written is the header, the quoted message and the stack
\* trace or the no-stack-trace line, in that order.
C5_FailureHandlerContract ==
    /\ pc # "crashed"
    /\ (failCalls > 0 /\ Terminal) =>
           /\ pc = "done"
           /\ EndsWith(out, ExpectBlock(IF failMsg.isNull THEN "null" ELSE failMsg.text,
                                        failErr))

IsWrite(x) == x = "write"

\* C6: the verbosity flag is false until the handler stores the resolved
\* verbose flag in it; it is stored at most once in a run and exactly once by
\* the end of the run; the store comes before every read by a logging call,
\* and from the store on the flag equals the resolved verbose flag.
C6_VerbosityWrittenOnceBeforeRead ==
    /\ Len(SelectSeq(flagEvents, IsWrite)) <= 1
    /\ flagEvents = << >> => ~verboseEnabled
    /\ flagEvents # << >> => flagEvents[1] = "write" /\ verboseEnabled = args.verbose
    /\ Terminal => Len(SelectSeq(flagEvents, IsWrite)) = 1
    /\ pc \in {"help", "version", "completion", "greetInfo"} => flagEvents = << "write" >>

\* logVerbose has read the flag, set to true by the one store before it.
C6_Witness ==
    /\ flagEvents = << "write", "read" >>
    /\ verboseEnabled
    /\ ExpectVerbose \in {out[i] : i \in 1..Len(out)}

LogData == UNION { [1..n -> {"Hello, world, verbosely!", "x"}] : n \in 0..2 }

\* C7: a call of logVerbose made while the verbosity flag is false writes
\* nothing and changes nothing of the program's state, whatever its arguments;
\* the state it leaves is the state it found, so repeating it changes nothing
\* either.
C7_VerboseDisabledIsNoOp ==
    [][ (pc = "greetVerbose" /\ ~verboseEnabled) =>
            /\ \A d \in LogData : LogVerbose(d) = << >>
            /\ out' = out
            /\ verboseEnabled' = verboseEnabled
            /\ UNCHANGED <<args, faults, handlerErr, failMsg, failErr, failCalls,
                           raisedBy, explicitExit, Inputs>> ]_vars

\* logVerbose was called with the flag false and the run ended with the info
\* greeting as its only output.
C7_Witness ==
    /\ pc = "done"
    /\ ~verboseEnabled
    /\ flagEvents = << "write", "read" >>
    /\ out = << ExpectInfo >>

\* C8 as stated: no call of logError, logWarning, logInfo or logVerbose lets
\* an error out to its caller.
C8_LoggingNeverRaises ==
    raisedBy \notin {"logError", "logWarning", "logInfo", "logVerbose"}

\* What each option resolves to, read off the inputs: its last occurrence on
\* the command line, else the environment variable of its name, else false.
FlagNames(k) ==
    CASE k = "verbose" -> {"verbose", "v"}
      [] k = "help" -> {"help", "h"}
      [] k = "version" -> {"version"}
      [] k = "completionScript" -> {"completion-script"}
EnvOf(k) ==
    CASE k = "verbose" -> "VERBOSE"
      [] k = "help" -> "HELP"
      [] k = "version" -> "VERSION"
      [] k = "completionScript" -> "COMPLETION_SCRIPT"
Occurrences(k) ==
    { i \in 1..Len(argv) : argv[i].kind # "positional" /\ argv[i].name \in FlagNames(k) }
LastOccurrence(k) == CHOOSE i \in Occurrences(k) : \A j \in Occurrences(k) : j <= i
Resolved(k) ==
    IF Occurrences(k) # {} THEN ~argv[LastOccurrence(k)].negated
    ELSE IF env[EnvOf(k)] # "unset" THEN env[EnvOf(k)] = "true"
    ELSE FALSE

====
